---------------------------- MODULE Spec2Model ----------------------------
(***************************************************************************)
(* groups_sync.py: one synchronisation pass that makes each UW group of    *)
(* group_map mirror a local (NSS) group.  The model follows main() step by *)
(* step; the Groups Web Service and getent are the environment.            *)
(*                                                                         *)
(* A string is a sequence of one-character strings, so that the regular    *)
(* expression, str.split and str.join are computed as the code computes    *)
(* them.                                                                   *)
(***************************************************************************)
EXTENDS Integers, Sequences, FiniteSets, TLC

\* ------------------------------------------------------------------ bounds
\* Largest number of entries of group_map.
MaxGroups == 2
\* The bulk membership listings hold up to MaxChunks * chunk_size + 1 members.
MaxChunks == 2
\* Largest number of calls of one pass the service answers with a failure status.
MaxRejected == 1
\* Longest listing of the small groups, of which every one is tried.
MaxLen == 2

\* ------------------------------------------------------- program constants
chunk_size == 50

\* --------------------------------------------------------------- strings
Lower == {"a","b","c","d","e","f","g","h","i","j","k","l","m",
          "n","o","p","q","r","s","t","u","v","w","x","y","z"}
Digit == {"0","1","2","3","4","5","6","7","8","9"}
Whitespace == {" ", "\n", "\t", "\r"}

Min(a, b) == IF a < b THEN a ELSE b

Range(s) == {s[k] : k \in 1..Len(s)}

\* Python's list slice s[lo : hi] (0-based, hi exclusive, clipped to the list).
Slice(s, lo, hi) == SubSeq(s, lo + 1, Min(hi, Len(s)))

\* Python's sep.join(parts), computed by halves to keep the recursion shallow.
RECURSIVE Join(_, _)
Join(parts, sep) ==
  IF Len(parts) = 0 THEN <<>>
  ELSE IF Len(parts) = 1 THEN parts[1]
  ELSE LET h == Len(parts) \div 2
       IN Join(SubSeq(parts, 1, h), sep) \o <<sep>> \o Join(SubSeq(parts, h + 1, Len(parts)), sep)

\* Python's s.split(sep): the fields between the separators, always at least
\* one field; "" splits to [""].  Computed by halves: the last field of the
\* left half and the first field of the right half are one field.
RECURSIVE Split(_, _)
Split(s, sep) ==
  IF Len(s) = 0 THEN << <<>> >>
  ELSE IF Len(s) = 1 THEN (IF s[1] = sep THEN << <<>>, <<>> >> ELSE <<s>>)
  ELSE LET h == Len(s) \div 2
           left == Split(SubSeq(s, 1, h), sep)
           right == Split(SubSeq(s, h + 1, Len(s)), sep)
       IN SubSeq(left, 1, Len(left) - 1)
          \o << left[Len(left)] \o right[1] >>
          \o Tail(right)

\* Python's s.strip(): leading and trailing whitespace removed.
RECURSIVE LStrip(_)
LStrip(s) == IF Len(s) > 0 /\ s[1] \in Whitespace THEN LStrip(Tail(s)) ELSE s

RECURSIVE RStrip(_)
RStrip(s) ==
  IF Len(s) > 0 /\ s[Len(s)] \in Whitespace THEN RStrip(SubSeq(s, 1, Len(s) - 1)) ELSE s

Strip(s) == RStrip(LStrip(s))

\* re.match("^[a-z][a-z0-9]{0,7}$", id): one lowercase letter, then at most
\* seven lowercase letters or digits, then the end of the string; Python's $
\* also matches just before one trailing line break.
MatchBody(s) ==
  /\ Len(s) >= 1
  /\ Len(s) <= 8
  /\ s[1] \in Lower
  /\ \A k \in 2..Len(s) : s[k] \in Lower \cup Digit

IsPersonalNetID(s) ==
  \/ MatchBody(s)
  \/ /\ Len(s) >= 1
     /\ s[Len(s)] = "\n"
     /\ MatchBody(SubSeq(s, 1, Len(s) - 1))


\* Decimal digits of n >= 0, as a string.
DigitChar == <<"0","1","2","3","4","5","6","7","8","9">>

RECURSIVE Dec(_)
Dec(n) == IF n < 10 THEN <<DigitChar[n + 1]>> ELSE Dec(n \div 10) \o <<DigitChar[(n % 10) + 1]>>

\* ------------------------------------------------------------ environment
\* Member identifiers the sample groups are made of.
alice == <<"a","l","i","c","e">>
bob == <<"b","o","b">>
carol == <<"c","a","r","o","l">>
carol999999 == <<"c","a","r","o","l","9","9","9","9","9","9">>
id_a == <<"a">>
id_ab == <<"a","b">>
id_abc == <<"a","b","c">>
\* A personal id followed by a line break, as a JSON string can hold it.
id_ab_nl == <<"a","b","\n">>
\* A local account name that is no personal NetID (a hyphen, nine characters).
svc_local == <<"s","v","c","-","a","d","m","i","n">>
\* The identifier of a member of another type (a group).
u_staff == <<"u","_","s","t","a","f","f">>

\* u<lo>, ..., u<hi>: a large listing of personal identifiers.
Bulk(lo, hi) == [k \in 1..(hi - lo + 1) |-> <<"u">> \o Dec(lo + k - 1)]

BulkLen == MaxChunks * chunk_size + 1

\* A member record of the listing endpoint's "data" array.
Rec(t, id) == [type |-> t, id |-> id]
NetIds(ids) == [k \in 1..Len(ids) |-> Rec("uwnetid", ids[k])]

\* A local group as getent knows it, and the UW group as the service holds it.
Scenario(exists, members, records) ==
  [exists |-> exists, members |-> members, records |-> records]

\* The sample groups: a small delta in both directions, past an invalid
\* personal id, a member of another type and a personal id that ends with a
\* line break; a local group without members;
\* equal listings in different orders; a local group that does not exist; a
\* local line that names an account twice and an account that is no NetID;
\* and listings large enough for several batches, where to_add fills
\* MaxChunks batches, the last with one member, and to_remove exactly one
\* batch.
Scenarios ==
  { Scenario(TRUE, <<alice, bob>>,
             <<Rec("uwnetid", bob), Rec("uwnetid", carol999999), Rec("group", u_staff),
               Rec("uwnetid", carol), Rec("uwnetid", id_ab_nl)>>),
    Scenario(TRUE, <<>>, NetIds(<<id_a, id_ab, id_abc>>)),
    Scenario(TRUE, <<bob, alice>>,
             <<Rec("uwnetid", alice), Rec("group", u_staff), Rec("uwnetid", bob)>>),
    Scenario(FALSE, <<>>, NetIds(<<bob>>)),
    Scenario(TRUE, <<id_a, id_a, svc_local>>, <<>>),
    Scenario(TRUE, Bulk(1, BulkLen),
             NetIds(Bulk(BulkLen - chunk_size + 1, BulkLen + chunk_size))) }

UwGroupNames == <<"u_g1", "u_g2", "u_g3", "u_g4">>
LocalGroupNames == <<"lg1", "lg2", "lg3", "lg4">>
\* A UW group that is no key of group_map.
OtherGroup == "u_other"

\* config["group_map"] with n entries, in the order items() yields them.
GroupMap(n) == [k \in 1..n |-> [uw |-> UwGroupNames[k], local |-> LocalGroupNames[k]]]

\* getent group <name>: one line name:passwd:gid:member,member and a line
\* break, or nothing when there is no such group.
GetentStdout(g) ==
  IF g.exists
  THEN <<"l","g">> \o <<":">> \o <<"x">> \o <<":">> \o <<"1","0","0","1">> \o <<":">>
       \o Join(g.members, ",") \o <<"\n">>
  ELSE <<>>

\* The service's handling of PUT .../member/<ids>: the ids of the path, split
\* at the commas, become personal members unless they are members already.
PutMembers(records, ids) ==
  LET held == Range(records)
      fresh == SelectSeq([k \in 1..Len(ids) |-> k], LAMBDA k :
                           /\ Rec("uwnetid", ids[k]) \notin held
                           /\ \A j \in 1..(k - 1) : ids[j] # ids[k])
  IN records \o [j \in 1..Len(fresh) |-> Rec("uwnetid", ids[fresh[j]])]

\* The service's handling of DELETE .../member/<ids>.
DeleteMembers(records, ids) == SelectSeq(records, LAMBDA m : m.id \notin Range(ids))

\* ------------------------------------------------------------------ state
VARIABLES
  group_map,                \* config["group_map"] as the list of its items
  nss,                      \* the local groups, by name (getent's database)
  gws,                      \* the member records the service holds, by UW group
  gi,                       \* position of the for loop of line 107 in group_map
  pc,                       \* where main() is
  uw_group_member_list,
  local_group_member_list,
  add_members,
  remove_members,
  loop,                     \* which batch loop runs: a position in BatchLoops
  i,                        \* the batch loops' index
  log,                      \* every remote call, getent run, sleep and summary so far
  exit_status               \* the process's exit status

vars == <<group_map, nss, gws, gi, pc, uw_group_member_list, local_group_member_list,
          add_members, remove_members, loop, i, log, exit_status>>

uw_group == group_map[gi].uw
local_group == group_map[gi].local

\* One entry of log.  ev: GET, GETENT, PUT, DELETE, SLEEP, SUMMARY or FATAL;
\* raised: the call raised; status: the HTTP status it returned, 0 if none;
\* add, rem: the two counts of a summary line.
Event(ev, group, members, raised, status, add, rem) ==
  [ev |-> ev, group |-> group, members |-> members, raised |-> raised,
   status |-> status, add |-> add, rem |-> rem]

Call(ev, group, members, raised, status) == Event(ev, group, members, raised, status, 0, 0)

SuccessStatus == {200}
FailureStatus == {500}

\* The statuses the service may answer the next call with.
Rejected == Cardinality({k \in 1..Len(log) : log[k].status \in FailureStatus /\ ~log[k].raised})
Statuses == IF Rejected < MaxRejected THEN SuccessStatus \cup FailureStatus ELSE SuccessStatus

\* ---------------------------------------------------------- the functions
\* get_uw_group_members, lines 31-40: the ids of the records of type uwnetid
\* whose id matches the NetID pattern, in the order of the listing.
GetUwGroupMembers(data) ==
  LET kept == SelectSeq(data, LAMBDA member :
                          member.type = "uwnetid" /\ IsPersonalNetID(member.id))
  IN [k \in 1..Len(kept) |-> kept[k].id]

\* get_local_group_members, line 49: r.stdout.strip().split(":")
GetentFields(stdout) == Split(Strip(stdout), ":")

\* line 49 raises IndexError when the line has no fourth field.
NoMemberField(stdout) == Len(GetentFields(stdout)) < 4

\* get_local_group_members, lines 49-50: the fourth field split at the commas.
GetLocalGroupMembers(stdout) == Split(GetentFields(stdout)[4], ",")

\* Mutant of AddMembers: the membership test of line 122 is lost.
AddMembersUntested(local, uw) == IF Range(local) # Range(uw) THEN local ELSE <<>>

\* main, lines 120-123: add_members when the loop of line 121 is over.
AddMembers(local, uw) ==
  IF Range(local) # Range(uw)
  THEN SelectSeq(local, LAMBDA member : member \notin Range(uw))
  ELSE <<>>

\* main, lines 120 and 125-127: remove_members when the loop of line 125 is over.
RemoveMembers(local, uw) ==
  IF Range(local) # Range(uw)
  THEN SelectSeq(uw, LAMBDA member : member \notin Range(local))
  ELSE <<>>

\* The path segment of lines 62 and 82, as the service reads it back.
PathIds(members) == Split(Join(members, ","), ",")

\* ------------------------------------------------------------------- Init
\* The state main() starts its loop in, given the groups of the n mappings.
Start(n, scen) ==
  /\ group_map = GroupMap(n)
  /\ nss = [name \in {LocalGroupNames[k] : k \in 1..n} |->
              LET k == CHOOSE k \in 1..n : LocalGroupNames[k] = name
              IN [exists |-> scen[k].exists, members |-> scen[k].members]]
  /\ gws = [name \in {UwGroupNames[k] : k \in 1..n} \cup {OtherGroup} |->
              IF name = OtherGroup THEN NetIds(<<carol>>)
              ELSE LET k == CHOOSE k \in 1..n : UwGroupNames[k] = name
                   IN scen[k].records]
  /\ gi = 1
  /\ pc = "for"
  /\ uw_group_member_list = <<>>
  /\ local_group_member_list = <<>>
  /\ add_members = <<>>
  /\ remove_members = <<>>
  /\ loop = 1
  /\ i = 0
  /\ log = <<>>
  /\ exit_status = 0

\* Up to MaxGroups mappings, each with one of the sample groups.
InitSample == \E n \in 1..MaxGroups : \E scen \in [1..n -> Scenarios] : Start(n, scen)

\* One mapping, with every pair of small listings.
SmallIds == {id_a, bob}
SmallLists == UNION {[1..m -> SmallIds] : m \in 0..MaxLen}
InitSmall ==
  \E members \in SmallLists, ids \in SmallLists :
    \* the service holds a member once
    /\ \A j, k \in 1..Len(ids) : ids[j] = ids[k] => j = k
    /\ Start(1, <<Scenario(TRUE, members, NetIds(ids))>>)

Init == InitSample \/ InitSmall

\* ---------------------------------------------------------------- actions
\* Mutant of Fatal: the handler gives up the current mapping only and the loop
\* goes on with the next one.
FatalSkipsGroup(events) ==
  /\ log' = log \o events \o <<Call("FATAL", uw_group, <<>>, FALSE, 0)>>
  /\ exit_status' = 1
  /\ gi' = gi + 1
  /\ pc' = "for"
  /\ UNCHANGED <<group_map, nss, uw_group_member_list, local_group_member_list,
                 add_members, remove_members, loop, i>>

\* Mutant of Fatal: the handler leaves with sys.exit() and no status.
FatalExitsZero(events) ==
  /\ log' = log \o events \o <<Call("FATAL", uw_group, <<>>, FALSE, 0)>>
  /\ exit_status' = 0
  /\ pc' = "exit"
  /\ UNCHANGED <<group_map, nss, gi, uw_group_member_list, local_group_member_list,
                 add_members, remove_members, loop, i>>

\* print("FATAL: ...") and sys.exit(1): lines 117-118, 147-148, 169-170.
Fatal(events) ==
  /\ log' = log \o events \o <<Call("FATAL", uw_group, <<>>, FALSE, 0)>>
  /\ exit_status' = 1
  /\ pc' = "exit"
  /\ UNCHANGED <<group_map, nss, gi, uw_group_member_list, local_group_member_list,
                 add_members, remove_members, loop, i>>

\* Mutant of ForNext: the two lists are not emptied for the next mapping.
ForNextKeepsLists ==
  /\ pc = "for"
  /\ gi <= Len(group_map)
  /\ pc' = "get_uw"
  /\ UNCHANGED <<group_map, nss, gws, gi, uw_group_member_list, local_group_member_list,
                 add_members, remove_members, loop, i, log, exit_status>>

\* line 107-109: the next item of group_map, with both lists empty again.
ForNext ==
  /\ pc = "for"
  /\ gi <= Len(group_map)
  /\ add_members' = <<>>
  /\ remove_members' = <<>>
  /\ pc' = "get_uw"
  /\ UNCHANGED <<group_map, nss, gws, gi, uw_group_member_list, local_group_member_list,
                 loop, i, log, exit_status>>

\* line 181: the loop is over, main returns.
ForEnd ==
  /\ pc = "for"
  /\ gi > Len(group_map)
  /\ pc' = "done"
  /\ UNCHANGED <<group_map, nss, gws, gi, uw_group_member_list, local_group_member_list,
                 add_members, remove_members, loop, i, log, exit_status>>

\* lines 112-114 with 25-40: the listing arrives with a body that has a data
\* array, whatever its status (the status is never read).  A success carries
\* the group's records; a failure answer that still has a data array carries
\* an empty one.
GetUwReturns ==
  /\ pc = "get_uw"
  /\ \E status \in Statuses :
       LET data == IF status \in SuccessStatus THEN gws[uw_group] ELSE <<>> IN
       /\ uw_group_member_list' = GetUwGroupMembers(data)
       /\ log' = Append(log, Call("GET", uw_group, <<>>, FALSE, status))
  /\ pc' = "get_local"
  /\ UNCHANGED <<group_map, nss, gws, gi, local_group_member_list, add_members,
                 remove_members, loop, i, exit_status>>

\* Mutant of GetUwRaises: the failure is swallowed and the listing taken as empty.
GetUwRaisesIgnored ==
  /\ pc = "get_uw"
  /\ uw_group_member_list' = <<>>
  /\ log' = Append(log, Call("GET", uw_group, <<>>, TRUE, 0))
  /\ pc' = "get_local"
  /\ UNCHANGED <<group_map, nss, gws, gi, local_group_member_list, add_members,
                 remove_members, loop, i, exit_status>>

\* lines 112-118: requests.get raises (status 0), or the body does not parse
\* or has no data array (r.json()["data"] raises); the handler ends the run.
GetUwRaises ==
  /\ pc = "get_uw"
  /\ \E status \in {0} \cup FailureStatus :
       Fatal(<<Call("GET", uw_group, <<>>, TRUE, status)>>)
  /\ UNCHANGED gws

\* lines 115 with 48-50: getent ran and its line has a member field.
GetLocalReturns ==
  /\ pc = "get_local"
  /\ LET stdout == GetentStdout(nss[local_group]) IN
     /\ ~NoMemberField(stdout)
     /\ local_group_member_list' = GetLocalGroupMembers(stdout)
  /\ log' = Append(log, Call("GETENT", local_group, <<>>, FALSE, 0))
  /\ pc' = "diff"
  /\ UNCHANGED <<group_map, nss, gws, gi, uw_group_member_list, add_members,
                 remove_members, loop, i, exit_status>>

\* lines 115-118: subprocess.run raises, or getent printed nothing (no such
\* group) and line 49 raises; the handler ends the run.
GetLocalRaises ==
  /\ pc = "get_local"
  /\ \E spawn_fails \in BOOLEAN :
       /\ spawn_fails \/ NoMemberField(GetentStdout(nss[local_group]))
       /\ Fatal(<<Call("GETENT", local_group, <<>>, TRUE, 0)>>)
  /\ UNCHANGED gws

\* Mutant of BatchLoops: the removals run first.
BatchLoopsRemoveFirst == <<"DELETE", "PUT">>

\* The two batch loops in the order main runs them: line 131, then line 153.
BatchLoops == <<"PUT", "DELETE">>

\* The list the running loop walks.
BatchList == IF BatchLoops[loop] = "PUT" THEN add_members ELSE remove_members

\* add_members[i : i + chunk_size] of line 139, remove_members[...] of line 161.
Chunk == Slice(BatchList, i, i + chunk_size)

\* What the service holds once it has carried out the running loop's call.
Applied ==
  [gws EXCEPT ![uw_group] =
     IF BatchLoops[loop] = "PUT" THEN PutMembers(@, PathIds(Chunk))
     ELSE DeleteMembers(@, PathIds(Chunk))]

\* Mutant of Diff: neither the comparison of line 120 nor the membership test
\* of line 122 is made, and the whole local listing is pushed.
DiffPushesAll ==
  /\ pc = "diff"
  /\ add_members' = local_group_member_list
  /\ remove_members' = RemoveMembers(local_group_member_list, uw_group_member_list)
  /\ loop' = 1
  /\ i' = 0
  /\ pc' = "batch"
  /\ UNCHANGED <<group_map, nss, gws, gi, uw_group_member_list, local_group_member_list,
                 log, exit_status>>

\* lines 120-130: the members are appended to the two lists of lines 108-109;
\* the batch loops are entered only when the two listings differ as sets.
Diff ==
  /\ pc = "diff"
  /\ add_members' = add_members \o AddMembers(local_group_member_list, uw_group_member_list)
  /\ remove_members' =
       remove_members \o RemoveMembers(local_group_member_list, uw_group_member_list)
  /\ loop' = 1
  /\ i' = 0
  /\ pc' = IF Range(local_group_member_list) # Range(uw_group_member_list)
           THEN "batch" ELSE "summary"
  /\ UNCHANGED <<group_map, nss, gws, gi, uw_group_member_list, local_group_member_list,
                 log, exit_status>>

\* Mutant of BatchReturns: a failure status is handled like a raised call.
BatchReturnsChecksStatus ==
  /\ pc = "batch"
  /\ i < Len(BatchList)
  /\ \E status \in Statuses :
       IF status \in SuccessStatus
       THEN /\ gws' = Applied
            /\ log' = Append(log, Call(BatchLoops[loop], uw_group, Chunk, FALSE, status))
            /\ pc' = "sleep"
            /\ UNCHANGED <<group_map, nss, gi, uw_group_member_list, local_group_member_list,
                           add_members, remove_members, loop, i, exit_status>>
       ELSE /\ gws' = gws
            /\ Fatal(<<Call(BatchLoops[loop], uw_group, Chunk, FALSE, status)>>)

\* lines 133-145, 155-167: the call returns a status, which is printed and
\* not looked at.  The service carries out a call it answers with success.
BatchReturns ==
  /\ pc = "batch"
  /\ i < Len(BatchList)
  /\ \E status \in Statuses :
       /\ gws' = IF status \in SuccessStatus THEN Applied ELSE gws
       /\ log' = Append(log, Call(BatchLoops[loop], uw_group, Chunk, FALSE, status))
  /\ pc' = "sleep"
  /\ UNCHANGED <<group_map, nss, gi, uw_group_member_list, local_group_member_list,
                 add_members, remove_members, loop, i, exit_status>>

\* Mutant of BatchRaises: the handler prints and the loop goes on.
BatchRaisesContinues ==
  /\ pc = "batch"
  /\ i < Len(BatchList)
  /\ gws' = gws
  /\ log' = Append(log, Call(BatchLoops[loop], uw_group, Chunk, TRUE, 0))
  /\ pc' = "sleep"
  /\ UNCHANGED <<group_map, nss, gi, uw_group_member_list, local_group_member_list,
                 add_members, remove_members, loop, i, exit_status>>

\* lines 146-148, 168-170: the call raises and the handler ends the run; the
\* service may or may not have carried the call out before the failure.
BatchRaises ==
  /\ pc = "batch"
  /\ i < Len(BatchList)
  /\ \E applied \in BOOLEAN : gws' = IF applied THEN Applied ELSE gws
  /\ Fatal(<<Call(BatchLoops[loop], uw_group, Chunk, TRUE, 0)>>)

\* Mutant of Sleep: the loop goes on to its next slice without the delay.
SleepOmitted ==
  /\ pc = "sleep"
  /\ i' = i + chunk_size
  /\ pc' = "batch"
  /\ UNCHANGED <<group_map, nss, gws, gi, uw_group_member_list, local_group_member_list,
                 add_members, remove_members, loop, log, exit_status>>

\* Mutant of Sleep: after a failure status the same slice is tried again.
SleepRetriesRejected ==
  /\ pc = "sleep"
  /\ log' = Append(log, Call("SLEEP", uw_group, <<>>, FALSE, 0))
  /\ i' = IF log[Len(log)].status \in FailureStatus THEN i ELSE i + chunk_size
  /\ pc' = "batch"
  /\ UNCHANGED <<group_map, nss, gws, gi, uw_group_member_list, local_group_member_list,
                 add_members, remove_members, loop, exit_status>>

\* lines 151, 173: time.sleep(1), then the next value of range(0, len, chunk_size).
Sleep ==
  /\ pc = "sleep"
  /\ log' = Append(log, Call("SLEEP", uw_group, <<>>, FALSE, 0))
  /\ i' = i + chunk_size
  /\ pc' = "batch"
  /\ UNCHANGED <<group_map, nss, gws, gi, uw_group_member_list, local_group_member_list,
                 add_members, remove_members, loop, exit_status>>

\* The range of line 131 or 153 is exhausted: the next loop, or the summary.
BatchLoopEnd ==
  /\ pc = "batch"
  /\ i >= Len(BatchList)
  /\ i' = 0
  /\ IF loop < Len(BatchLoops)
     THEN loop' = loop + 1 /\ pc' = "batch"
     ELSE loop' = loop /\ pc' = "summary"
  /\ UNCHANGED <<group_map, nss, gws, gi, uw_group_member_list, local_group_member_list,
                 add_members, remove_members, log, exit_status>>

\* Mutant of Summary: the line is printed only for a group that had changes.
SummaryOnlyAfterChange ==
  /\ pc = "summary"
  /\ log' = IF add_members = <<>> /\ remove_members = <<>>
            THEN log
            ELSE Append(log, Event("SUMMARY", uw_group, <<>>, FALSE, 0,
                                   Len(add_members), Len(remove_members)))
  /\ gi' = gi + 1
  /\ pc' = "for"
  /\ UNCHANGED <<group_map, nss, gws, uw_group_member_list, local_group_member_list,
                 add_members, remove_members, loop, i, exit_status>>

\* lines 175-179: the summary line, then the next item of group_map.
Summary ==
  /\ pc = "summary"
  /\ log' = Append(log, Event("SUMMARY", uw_group, <<>>, FALSE, 0,
                              Len(add_members), Len(remove_members)))
  /\ gi' = gi + 1
  /\ pc' = "for"
  /\ UNCHANGED <<group_map, nss, gws, uw_group_member_list, local_group_member_list,
                 add_members, remove_members, loop, i, exit_status>>

Next ==
  \/ ForNext
  \/ ForEnd
  \/ GetUwReturns
  \/ GetUwRaises
  \/ GetLocalReturns
  \/ GetLocalRaises
  \/ Diff
  \/ BatchReturns
  \/ BatchRaises
  \/ Sleep
  \/ BatchLoopEnd
  \/ Summary

Spec == Init /\ [][Next]_vars

\* ----------------------------------------------------------------- claims
\* Positions of log that hold a call of kind ev for UW group g.
CallsOf(ev, g) == {k \in 1..Len(log) : log[k].ev = ev /\ log[k].group = g}

\* The lists of the current mapping are built: Diff has run for group_map[gi].
DiffDone == pc \in {"batch", "sleep", "summary"}

\* ceil(n / chunk_size)
Batches(n) == (n + chunk_size - 1) \div chunk_size

\* C1: once the delta of a group is computed, to_add is the local listing
\* minus the remote one and to_remove the remote listing minus the local one,
\* as sets, and the two have no member in common.
C1_Delta ==
  DiffDone =>
    /\ Range(add_members) = Range(local_group_member_list) \ Range(uw_group_member_list)
    /\ Range(remove_members) = Range(uw_group_member_list) \ Range(local_group_member_list)
    /\ Range(add_members) \cap Range(remove_members) = {}

\* C1's case: a delta with members going both ways and a common member.
C1_Witness ==
  /\ DiffDone
  /\ add_members # <<>>
  /\ remove_members # <<>>
  /\ Range(local_group_member_list) \cap Range(uw_group_member_list) # {}

\* C3: no remove (DELETE) call of a group comes before an add (PUT) call of
\* that group, whatever statuses the calls returned.
C3_AddsBeforeRemoves ==
  \A j, k \in 1..Len(log) :
    (j < k /\ log[j].ev = "DELETE" /\ log[k].ev = "PUT") => log[j].group # log[k].group

\* C3's case: a group with several add batches, one answered with a failure
\* status, and a remove batch after them.
C3_Witness ==
  \E g \in DOMAIN gws :
    /\ Cardinality(CallsOf("PUT", g)) >= 2
    /\ CallsOf("DELETE", g) # {}
    /\ \E k \in CallsOf("PUT", g) : log[k].status \in FailureStatus

\* The identifiers the calls of kind ev for group g carried, batch after batch.
RECURSIVE Concat(_)
Concat(seqs) == IF Len(seqs) = 0 THEN <<>> ELSE seqs[1] \o Concat(Tail(seqs))
Carried(ev, g) ==
  LET calls == SelectSeq(log, LAMBDA e : e.ev = ev /\ e.group = g)
  IN Concat([k \in 1..Len(calls) |-> calls[k].members])

\* The listing a fetch of UW group g would return now.
RemoteNow(g) == GetUwGroupMembers(gws[g])
\* The listing a fetch of local group l would return now.
LocalNow(l) == GetLocalGroupMembers(GetentStdout(nss[l]))

\* C2: after a pass in which every fetch and batch call completed with
\* success, each UW group as it would be listed now has the members of its
\* local group, and a pass run right away would compute an empty delta.
C2_Mirrors ==
  ( /\ pc = "done"
    /\ \A k \in 1..Len(log) :
         log[k].ev \in {"GET", "PUT", "DELETE"} => log[k].status \in SuccessStatus )
  => \A m \in 1..Len(group_map) :
       LET g == group_map[m].uw
           l == group_map[m].local
       IN /\ Range(RemoteNow(g)) = Range(nss[l].members)
          /\ AddMembers(LocalNow(l), RemoteNow(g)) = <<>>
          /\ RemoveMembers(LocalNow(l), RemoteNow(g)) = <<>>

\* C4: when both batch loops of a group are over, each of to_add and
\* to_remove, of N members, went out in ceil(N / 50) calls of 1 to 50
\* identifiers, and every member was carried exactly once.
C4_BatchesOf(ev, list) ==
  LET S == Range(list)
      calls == CallsOf(ev, uw_group)
      sent == Carried(ev, uw_group)
  IN /\ Cardinality(calls) = Batches(Cardinality(S))
     /\ \A k \in calls : Len(log[k].members) >= 1 /\ Len(log[k].members) <= chunk_size
     /\ Range(sent) = S
     /\ \A id \in S : Cardinality({j \in 1..Len(sent) : sent[j] = id}) = 1

C4_Batching ==
  pc = "summary" => C4_BatchesOf("PUT", add_members) /\ C4_BatchesOf("DELETE", remove_members)

C6_EmptyLocal ==
  ( /\ pc = "summary"
    /\ nss[local_group].exists
    /\ nss[local_group].members = <<>>
    /\ uw_group_member_list # <<>> )
  => /\ CallsOf("PUT", uw_group) = {}
     /\ Range(Carried("DELETE", uw_group)) = Range(uw_group_member_list)

\* The run is over: main returned or sys.exit was called.
Ended == pc \in {"done", "exit"}

\* Positions of log that belong to the pipeline of mapping m.
PipelineOf(m) ==
  {k \in 1..Len(log) : log[k].group \in {group_map[m].uw, group_map[m].local}}

\* C7, as stated: when a call of one mapping's pipeline raised, the next
\* mapping is still fetched before the run is over.
C7_NextGroupStillProcessed ==
  \A m \in 1..(Len(group_map) - 1) :
    (Ended /\ \E k \in PipelineOf(m) : log[k].raised)
    => CallsOf("GET", group_map[m + 1].uw) # {}

\* C7, amended: a call that raised is followed by the FATAL line and nothing
\* else; the run is over with exit status 1 at the mapping the call belongs
\* to, and no later mapping has a fetch, a batch call or a summary.
C7_FailureEndsRun ==
  \A j \in 1..Len(log) :
    log[j].raised =>
      /\ pc = "exit"
      /\ exit_status = 1
      /\ j = Len(log) - 1
      /\ log[Len(log)].ev = "FATAL"
      /\ j \in PipelineOf(gi)
      /\ \A m \in (gi + 1)..Len(group_map) : PipelineOf(m) = {}

\* C7's case: a call of the first mapping raised and a second mapping is
\* configured.
C7_Witness ==
  /\ pc = "exit"
  /\ gi = 1
  /\ Len(group_map) >= 2
  /\ \E j \in 1..Len(log) : log[j].raised

\* A fetch that failed: the call raised, or the listing was answered with a
\* failure status.
FailedFetch(e) ==
  /\ e.ev \in {"GET", "GETENT"}
  /\ e.raised \/ e.status \in FailureStatus

\* C8: when the remote or the local fetch of a group failed, the FATAL line
\* is printed, the run is over with a non-zero exit status and no add or
\* remove call was issued for that group.
C8_FailedFetchNoCalls ==
  \A m \in 1..Len(group_map) :
    (\E j \in PipelineOf(m) : FailedFetch(log[j]))
    => /\ pc = "exit"
       /\ exit_status # 0
       /\ log[Len(log)].ev = "FATAL"
       /\ CallsOf("PUT", group_map[m].uw) = {}
       /\ CallsOf("DELETE", group_map[m].uw) = {}

\* C8, for the fetches that raise: the FATAL line is printed, the run is over
\* with exit status 1 and no add or remove call was issued for that group.
C8_FetchFailure ==
  (\E j \in 1..Len(log) : log[j].raised /\ log[j].ev \in {"GET", "GETENT"})
  => /\ pc = "exit"
     /\ exit_status = 1
     /\ log[Len(log)].ev = "FATAL"
     /\ log[Len(log)].group = uw_group
     /\ CallsOf("PUT", uw_group) = {}
     /\ CallsOf("DELETE", uw_group) = {}

\* C8's case: the local fetch of the second mapping raised after the first
\* mapping had its batch calls.
C8_Witness ==
  /\ gi = 2
  /\ \E j \in 1..Len(log) : log[j].raised /\ log[j].ev = "GETENT"
  /\ CallsOf("PUT", group_map[1].uw) # {}

\* C9: after an add or remove call that raised there is no further call of
\* any kind, only the FATAL line; the batches the service answered with
\* success before it are still in effect.
C9_NoCallAfterRaise ==
  \A j \in 1..Len(log) :
    (log[j].raised /\ log[j].ev \in {"PUT", "DELETE"}) =>
      /\ \A k \in (j + 1)..Len(log) : log[k].ev = "FATAL"
      /\ \A k \in 1..(j - 1) :
           (log[k].group = log[j].group /\ log[k].status \in SuccessStatus) =>
             LET held == Range(gws[log[j].group]) IN
             /\ log[k].ev = "PUT" =>
                  \A id \in Range(PathIds(log[k].members)) : Rec("uwnetid", id) \in held
             /\ log[k].ev = "DELETE" =>
                  \A id \in Range(PathIds(log[k].members)) : \A r \in held : r.id # id

\* C9's case: a batch applied with success, then a later call of the same
\* group raised.
C9_Witness ==
  \E j, k \in 1..Len(log) :
    /\ j < k
    /\ log[j].ev = "PUT" /\ log[j].status \in SuccessStatus
    /\ log[k].raised /\ log[k].ev \in {"PUT", "DELETE"}
    /\ log[k].group = log[j].group

\* C10: a failure status returned by a batch call aborts nothing.  The exit
\* status is 1 only after a call that raised; a batch call that returned is
\* followed by the pacing delay, never by the FATAL line; every group that
\* reached its summary had all ceil(N / 50) batches of both lists issued; and
\* a run that returns has a summary for every mapping.
C10_StatusAbortsNothing ==
  /\ exit_status = 1 => \E j \in 1..Len(log) : log[j].raised
  /\ \A j \in 1..(Len(log) - 1) :
       (log[j].ev \in {"PUT", "DELETE"} /\ ~log[j].raised) => log[j + 1].ev = "SLEEP"
  /\ \A s \in 1..Len(log) :
       log[s].ev = "SUMMARY" =>
         /\ Cardinality(CallsOf("PUT", log[s].group)) = Batches(log[s].add)
         /\ Cardinality(CallsOf("DELETE", log[s].group)) = Batches(log[s].rem)
  /\ pc = "done" =>
       \A m \in 1..Len(group_map) : CallsOf("SUMMARY", group_map[m].uw) # {}

\* C10's case: an add call of the first mapping returned a failure status,
\* later batches of that group and the second mapping followed, and the run
\* returned with exit status 0.
C10_Witness ==
  /\ pc = "done"
  /\ exit_status = 0
  /\ Len(group_map) >= 2
  /\ \E j, k \in 1..Len(log) :
       /\ j < k
       /\ log[j].ev = "PUT" /\ log[j].status \in FailureStatus
       /\ log[j].group = group_map[1].uw
       /\ log[k].ev = "DELETE" /\ log[k].group = group_map[1].uw
  /\ CallsOf("PUT", group_map[2].uw) # {}

\* C11: the exit status is 1 exactly when a fetch or a batch call raised, and
\* then the run is over; a run that is over without a raised call has
\* returned with exit status 0 after every mapping had its two fetches and
\* its summary.
C11_ExitStatus ==
  /\ exit_status \in {0, 1}
  /\ exit_status = 1 <=>
       \E j \in 1..Len(log) :
         log[j].raised /\ log[j].ev \in {"GET", "GETENT", "PUT", "DELETE"}
  /\ exit_status = 1 => pc = "exit"
  /\ (Ended /\ exit_status = 0) =>
       /\ pc = "done"
       /\ gi = Len(group_map) + 1
       /\ \A m \in 1..Len(group_map) :
            /\ CallsOf("GET", group_map[m].uw) # {}
            /\ CallsOf("GETENT", group_map[m].local) # {}
            /\ CallsOf("SUMMARY", group_map[m].uw) # {}

\* C11's case: the first mapping went through with a failure status on the
\* way, then a remove call of the second mapping raised and the run ended
\* with exit status 1.
C11_Witness ==
  /\ pc = "exit"
  /\ exit_status = 1
  /\ gi = 2
  /\ CallsOf("SUMMARY", group_map[1].uw) # {}
  /\ \E k \in PipelineOf(1) : log[k].status \in FailureStatus
  /\ \E j \in CallsOf("DELETE", group_map[2].uw) : log[j].raised

\* C12: a listing answered with a failure status is a fetch failure, whatever
\* its body holds: the call counts as raised, the FATAL line follows it at
\* once and nothing is done with the body.
C12_FailureStatusFailsFetch ==
  \A j \in 1..Len(log) :
    (log[j].ev = "GET" /\ log[j].status \in FailureStatus) =>
      /\ log[j].raised
      /\ j < Len(log)
      /\ log[j + 1].ev = "FATAL"

\* C13: the listing a fetch returns holds exactly the ids of the records of
\* type uwnetid whose id is, as a whole string, a lowercase letter followed by
\* up to seven lowercase letters or digits; an id that ends with a line break
\* is not among them.
C13_ExactlyWholeMatches ==
  (pc = "get_local" /\ log[Len(log)].status \in SuccessStatus) =>
    LET records == Range(gws[uw_group])
        listed == Range(uw_group_member_list)
    IN /\ \A id \in listed : MatchBody(id) /\ Rec("uwnetid", id) \in records
       /\ \A r \in records : (r.type = "uwnetid" /\ MatchBody(r.id)) => r.id \in listed

\* C14: every identifier a remove (DELETE) call of the current group carried
\* is a valid personal id (the whole string matches the pattern), was listed
\* by the fetch from a record of type uwnetid, and is no member of the local
\* group.
C14_RemovesOnlyValidRemote ==
  gi <= Len(group_map) =>
    \A k \in CallsOf("DELETE", uw_group) :
      \A id \in Range(log[k].members) :
        /\ MatchBody(id)
        /\ id \in Range(uw_group_member_list)
        /\ id \notin Range(local_group_member_list)
        /\ id \notin Range(nss[local_group].members)

\* The calls of kind ev for UW group g, in the order they were issued.
IssuedFor(ev, g) == SelectSeq(log, LAMBDA e : e.ev = ev /\ e.group = g)

\* The n-th call over list carried the n-th slice of chunk_size entries.
C15_SlicesInTurn(ev, list) ==
  LET calls == IssuedFor(ev, uw_group) IN
  \A n \in 1..Len(calls) :
    /\ (n - 1) * chunk_size < Len(list)
    /\ calls[n].members = Slice(list, (n - 1) * chunk_size, n * chunk_size)

\* C15: no group has more than one member-listing call, and the add and
\* remove calls of the current group carried the slices of add_members and
\* remove_members one after the other, the n-th call the n-th slice: no slice
\* went out twice, whatever the calls returned.
C15_AtMostOnce ==
  /\ \A m \in 1..Len(group_map) : Cardinality(CallsOf("GET", group_map[m].uw)) <= 1
  /\ gi <= Len(group_map) =>
       /\ C15_SlicesInTurn("PUT", add_members)
       /\ C15_SlicesInTurn("DELETE", remove_members)

\* C15's case: an add call of a group was answered with a failure status and
\* the next add call of that group, with the next slice, was issued; the
\* second mapping was listed after the first had been.
C15_Witness ==
  /\ Len(group_map) >= 2
  /\ gi = 2
  /\ CallsOf("GET", group_map[2].uw) # {}
  /\ LET calls == IssuedFor("PUT", group_map[1].uw) IN
     /\ Len(calls) >= 2
     /\ calls[1].status \in FailureStatus
     /\ calls[2].members # calls[1].members

\* C16, as stated: every add or remove call, returned or raised, is followed
\* by the pacing delay before anything else happens and before the run is
\* over.
C16_DelayAfterEveryCall ==
  \A j \in 1..Len(log) :
    log[j].ev \in {"PUT", "DELETE"} =>
      /\ j < Len(log) => log[j + 1].ev = "SLEEP"
      /\ Ended => j < Len(log)

\* C16, amended: an add or remove call that returned, with any status, is
\* followed by one pacing delay before any further call, summary or the end
\* of the run; a call that raised is followed by the FATAL line and the exit,
\* without a delay; and there is no delay but after a returned call.
C16_DelayAfterReturnedCall ==
  \A j \in 1..Len(log) :
    /\ (log[j].ev \in {"PUT", "DELETE"} /\ ~log[j].raised) =>
         /\ j = Len(log) => pc = "sleep"
         /\ j < Len(log) => log[j + 1].ev = "SLEEP"
    /\ (log[j].ev \in {"PUT", "DELETE"} /\ log[j].raised) =>
         /\ pc = "exit"
         /\ j = Len(log) - 1
         /\ log[j + 1].ev = "FATAL"
    /\ log[j].ev = "SLEEP" =>
         /\ j > 1
         /\ log[j - 1].ev \in {"PUT", "DELETE"}
         /\ ~log[j - 1].raised

\* C16's case: an add call answered with a failure status and a remove call
\* answered with success, each followed by the delay, and then a call that
\* raised, followed by the FATAL line.
C16_Witness ==
  /\ pc = "exit"
  /\ \E j \in 1..(Len(log) - 1) :
       /\ log[j].ev = "PUT" /\ log[j].status \in FailureStatus
       /\ log[j + 1].ev = "SLEEP"
  /\ \E j \in 1..(Len(log) - 1) :
       /\ log[j].ev = "DELETE" /\ log[j].status \in SuccessStatus
       /\ log[j + 1].ev = "SLEEP"
  /\ \E j \in 1..(Len(log) - 1) :
       /\ log[j].ev \in {"PUT", "DELETE"} /\ log[j].raised
       /\ log[j + 1].ev = "FATAL"

\* No entry of the list occurs twice.
NoDuplicates(list) == Cardinality(Range(list)) = Len(list)

\* C17, as stated: no group has two summary lines, a run that is over has one
\* for every configured group, the line comes after all batch calls of its
\* group, and its counts are the sizes of the two set differences.
C17_OneSummaryPerGroup ==
  /\ \A m \in 1..Len(group_map) :
       /\ Cardinality(CallsOf("SUMMARY", group_map[m].uw)) <= 1
       /\ Ended => Cardinality(CallsOf("SUMMARY", group_map[m].uw)) = 1
  /\ \A s \in 1..Len(log) :
       log[s].ev = "SUMMARY" =>
         \A k \in CallsOf("PUT", log[s].group) \cup CallsOf("DELETE", log[s].group) : k < s
  /\ (pc = "for" /\ gi > 1) =>
       LET e == log[Len(log)]
           L == Range(local_group_member_list)
           R == Range(uw_group_member_list)
       IN /\ e.ev = "SUMMARY"
          /\ e.add = Cardinality(L \ R)
          /\ e.rem = Cardinality(R \ L)

\* C17, amended: the mappings that went through without a raised call, those
\* before position gi, have exactly one summary line each, changes or not,
\* and no other mapping has one.  The line comes after all batch calls of its
\* group; its counts are the lengths of add_members and remove_members, the
\* numbers of identifiers the group's add and remove calls carried: 0 and 0
\* for equal listings, and the sizes of the set differences when no listing
\* names a member twice.
C17_SummaryPerFinishedGroup ==
  /\ \A m \in 1..Len(group_map) :
       Cardinality(CallsOf("SUMMARY", group_map[m].uw)) = IF m < gi THEN 1 ELSE 0
  /\ \A s \in 1..Len(log) :
       log[s].ev = "SUMMARY" =>
         \A k \in CallsOf("PUT", log[s].group) \cup CallsOf("DELETE", log[s].group) : k < s
  /\ (pc = "for" /\ gi > 1) =>
       LET e == log[Len(log)]
           L == Range(local_group_member_list)
           R == Range(uw_group_member_list)
       IN /\ e.ev = "SUMMARY"
          /\ e.group = group_map[gi - 1].uw
          /\ e.add = Len(add_members)
          /\ e.rem = Len(remove_members)
          /\ e.add = Len(Carried("PUT", e.group))
          /\ e.rem = Len(Carried("DELETE", e.group))
          /\ L = R => e.add = 0 /\ e.rem = 0
          /\ NoDuplicates(local_group_member_list) => e.add = Cardinality(L \ R)
          /\ NoDuplicates(uw_group_member_list) => e.rem = Cardinality(R \ L)

\* C17's case: a run that returned after a mapping with equal listings, whose
\* summary counts 0 and 0 and which had no batch call, and a mapping with
\* changes both ways, whose summary comes after its calls.
C17_Witness ==
  /\ pc = "done"
  /\ \E s, t \in 1..Len(log) :
       /\ log[s].ev = "SUMMARY" /\ log[s].add = 0 /\ log[s].rem = 0
       /\ CallsOf("PUT", log[s].group) = {}
       /\ log[t].ev = "SUMMARY" /\ log[t].add > 0 /\ log[t].rem > 0
       /\ CallsOf("DELETE", log[t].group) # {}

\* The mapping an entry of log belongs to, and its step in the mapping's
\* pipeline: remote fetch, local fetch, add batches, remove batches, summary.
MappingOf(e) ==
  CHOOSE m \in 1..Len(group_map) : e.group \in {group_map[m].uw, group_map[m].local}
Steps == <<"GET", "GETENT", "PUT", "DELETE", "SUMMARY">>
StepOf(e) == CHOOSE n \in 1..Len(Steps) : Steps[n] = e.ev

\* The order of the pipeline, with Succeeded(e) telling which remote fetches
\* count as succeeded: mappings in configuration order and one at a time,
\* the five steps of a mapping in their order, the local fetch only after a
\* remote fetch of the mapping that succeeded, a batch call only after both
\* fetches, and nothing of a mapping before the summary of the one before it.
C18_Order(Succeeded(_)) ==
  LET steps == {k \in 1..Len(log) : log[k].ev \in Range(Steps)} IN
  /\ \A j, k \in steps :
       j < k =>
         \/ MappingOf(log[j]) < MappingOf(log[k])
         \/ /\ MappingOf(log[j]) = MappingOf(log[k])
            /\ StepOf(log[j]) <= StepOf(log[k])
  /\ \A k \in steps :
       LET m == MappingOf(log[k])
           fetched(ev) == \E j \in 1..(k - 1) :
                            /\ log[j].ev = ev
                            /\ MappingOf(log[j]) = m
                            /\ ~log[j].raised
                            /\ ev = "GET" => Succeeded(log[j])
       IN /\ log[k].ev = "GETENT" => fetched("GET")
          /\ log[k].ev \in {"PUT", "DELETE"} => fetched("GET") /\ fetched("GETENT")
          /\ m > 1 => \E s \in 1..(k - 1) :
                        log[s].ev = "SUMMARY" /\ MappingOf(log[s]) = m - 1

\* C18: the mappings are processed one at a time in configuration order, each
\* as remote fetch, local fetch, add batches, remove batches, summary; the
\* local fetch comes only after a remote fetch that succeeded, that is, one
\* answered with a success status.
C18_PipelineOrder == C18_Order(LAMBDA e : e.status \in SuccessStatus)

\* C18, with every listing call that returned counted as succeeded.
C18_PipelineOrderOfReturns == C18_Order(LAMBDA e : TRUE)

\* What one step of main, taken while mapping gi is processed, may touch.
C19_Step ==
  LET added == {k \in 1..Len(log') : k > Len(log)} IN
  \* the service's state changes for the current UW group only
  /\ \A g \in DOMAIN gws : gws'[g] # gws[g] => (gi <= Len(group_map) /\ g = uw_group)
  \* every call, getent run and line names the current mapping's groups
  /\ \A k \in added :
       /\ log'[k].group = IF log'[k].ev = "GETENT" THEN local_group ELSE uw_group
       /\ log'[k].ev = "PUT" =>
            /\ Range(log'[k].members) \subseteq Range(add_members)
            /\ Range(log'[k].members) \subseteq Range(local_group_member_list)
       /\ log'[k].ev = "DELETE" =>
            /\ Range(log'[k].members) \subseteq Range(remove_members)
            /\ Range(log'[k].members) \subseteq Range(uw_group_member_list)
  \* the delta is computed from the two fetches that were just made for this
  \* mapping, and from nothing else
  /\ (pc = "diff" /\ pc' # "diff") =>
       /\ log[Len(log) - 1].ev = "GET" /\ log[Len(log) - 1].group = uw_group
       /\ log[Len(log)].ev = "GETENT" /\ log[Len(log)].group = local_group
       /\ local_group_member_list = LocalNow(local_group)
       /\ uw_group_member_list =
            IF log[Len(log) - 1].status \in SuccessStatus THEN RemoteNow(uw_group) ELSE <<>>
       /\ add_members' = AddMembers(local_group_member_list, uw_group_member_list)
       /\ remove_members' = RemoveMembers(local_group_member_list, uw_group_member_list)

\* C19: while a mapping (g, l) is processed, every listing, add and remove
\* call addresses g and only g changes at the service, so a UW group that is
\* no key of group_map never changes; the delta of g is computed from the
\* listings fetched for (g, l) in this iteration alone, and the calls carry
\* members of that delta only.
C19_OnlyCurrentGroup == [][C19_Step]_vars

\* C19's case: the second mapping has its add call after the first mapping
\* had add and remove calls with other members, and the UW group that is no
\* key of group_map holds what it held.
C19_Witness ==
  /\ Len(group_map) >= 2
  /\ gi = 2
  /\ CallsOf("DELETE", group_map[1].uw) # {}
  /\ \E j \in CallsOf("PUT", group_map[1].uw) : \E k \in CallsOf("PUT", group_map[2].uw) :
       Range(log[j].members) \cap Range(log[k].members) = {}
  /\ gws[OtherGroup] = NetIds(<<carol>>)

=============================================================================
